---- MODULE Spec2Model ----
(***************************************************************************)
(* Model of the code-indexer service of code-buddy:                        *)
(*   services/code-indexer/code_parser.py          (CodeParser)            *)
(*   services/code-indexer/embedding_generator.py  (EmbeddingGenerator)    *)
(*   services/code-indexer/main.py                 (perform_indexing, ...) *)
(*                                                                         *)
(* A Python str is a sequence of one-character strings; the string         *)
(* operations the code uses (split, join, lstrip, strip, startswith, in,   *)
(* count, slicing) are operators on such sequences.                        *)
(***************************************************************************)
EXTENDS Integers, Sequences, FiniteSets, TLC

(***************************************************************************)
(* Bounds of the model.                                                    *)
(***************************************************************************)
\* longest file (in '\n'-separated lines) drawn for the line scanners
MaxLines == 5
\* the generic chunker is fed files of 1 .. MaxWindows windows, +- one line
MaxWindows == 2

(***************************************************************************)
(* Python str operations.                                                  *)
(***************************************************************************)
NL == "\n"
SP == " "

Min(a, b) == IF a <= b THEN a ELSE b

\* s.startswith(p)
StartsWith(s, p) ==
    /\ Len(p) <= Len(s)
    /\ SubSeq(s, 1, Len(p)) = p

\* p in s   (substring test)
Contains(s, p) ==
    \E k \in 0..(Len(s) - Len(p)) : SubSeq(s, k + 1, k + Len(p)) = p

\* s.count(c) for a one-character c
Count(s, c) == Cardinality({k \in 1..Len(s) : s[k] = c})

\* s.lstrip(): the whitespace of the model's texts is the space and the newline
IsSpace(c) == c = SP \/ c = NL

RECURSIVE LStrip(_)
LStrip(s) ==
    IF s # <<>> /\ IsSpace(s[1]) THEN LStrip(Tail(s)) ELSE s

RECURSIVE RStrip(_)
RStrip(s) ==
    IF s # <<>> /\ IsSpace(s[Len(s)]) THEN RStrip(SubSeq(s, 1, Len(s) - 1)) ELSE s

\* s.strip()
Strip(s) == RStrip(LStrip(s))

\* content.split('\n'), computed by halves: the texts between the newlines;
\* always at least one element, and a trailing '\n' gives a last element ''
RECURSIVE Split(_)
Split(s) ==
    IF Len(s) = 0 THEN <<<<>>>>
    ELSE IF Len(s) = 1 THEN (IF s[1] = NL THEN <<<<>>, <<>>>> ELSE <<s>>)
    ELSE LET h == Len(s) \div 2
             l == Split(SubSeq(s, 1, h))
             r == Split(SubSeq(s, h + 1, Len(s)))
         IN  SubSeq(l, 1, Len(l) - 1) \o <<l[Len(l)] \o r[1]>> \o Tail(r)

\* '\n'.join(ls), computed by halves
RECURSIVE Join(_)
Join(ls) ==
    IF ls = <<>> THEN <<>>
    ELSE IF Len(ls) = 1 THEN ls[1]
    ELSE LET h == Len(ls) \div 2
         IN  Join(SubSeq(ls, 1, h)) \o <<NL>> \o Join(SubSeq(ls, h + 1, Len(ls)))

\* ls[a:b] of Python (0-based, half open) for 0 <= a
Slice(ls, a, b) == SubSeq(ls, a + 1, Min(b, Len(ls)))

(***************************************************************************)
(* The texts the scanners look for.                                        *)
(***************************************************************************)
Hash == <<"#">>
KwDef == <<"d", "e", "f", " ">>
KwClass == <<"c", "l", "a", "s", "s", " ">>
KwAsyncDef == <<"a", "s", "y", "n", "c", " ", "d", "e", "f", " ">>
TxtDef == <<"d", "e", "f">>
TxtFunction == <<"f", "u", "n", "c", "t", "i", "o", "n">>
TxtClass == <<"c", "l", "a", "s", "s">>
KwFunction == <<"f", "u", "n", "c", "t", "i", "o", "n", " ">>
KwConst == <<"c", "o", "n", "s", "t", " ">>
KwLet == <<"l", "e", "t", " ">>
KwExport == <<"e", "x", "p", "o", "r", "t", " ">>
KwAsyncFunction == <<"a", "s", "y", "n", "c", " ", "f", "u", "n", "c", "t", "i", "o", "n">>
JsKeywords == {KwFunction, KwClass, KwConst, KwLet, KwExport, KwAsyncFunction}

\* Python's None
None == "None"

(***************************************************************************)
(* CodeParser                                                              *)
(***************************************************************************)
\* CODE_EXTENSIONS
CODE_EXTENSIONS ==
    {".py", ".js", ".ts", ".jsx", ".tsx", ".java", ".go", ".rs",
     ".cpp", ".c", ".h", ".hpp", ".cs", ".rb", ".php", ".swift",
     ".kt", ".scala", ".clj", ".sh", ".bash", ".zsh", ".yaml", ".yml",
     ".json", ".toml", ".ini", ".cfg", ".conf", ".md", ".rst"}

\* _detect_language: ext_to_lang.get(suffix, 'unknown')
ext_to_lang ==
    [e \in {".py", ".js", ".jsx", ".ts", ".tsx", ".java", ".go", ".rs", ".cpp",
            ".c", ".h", ".hpp", ".cs", ".rb", ".php", ".swift", ".kt", ".scala",
            ".clj", ".sh", ".bash", ".zsh", ".yaml", ".yml", ".json", ".toml",
            ".md", ".rst"} |->
        CASE e = ".py" -> "python"
          [] e \in {".js", ".jsx"} -> "javascript"
          [] e \in {".ts", ".tsx"} -> "typescript"
          [] e = ".java" -> "java"
          [] e = ".go" -> "go"
          [] e = ".rs" -> "rust"
          [] e \in {".cpp", ".hpp"} -> "cpp"
          [] e \in {".c", ".h"} -> "c"
          [] e = ".cs" -> "csharp"
          [] e = ".rb" -> "ruby"
          [] e = ".php" -> "php"
          [] e = ".swift" -> "swift"
          [] e = ".kt" -> "kotlin"
          [] e = ".scala" -> "scala"
          [] e = ".clj" -> "clojure"
          [] e \in {".sh", ".bash", ".zsh"} -> "bash"
          [] e \in {".yaml", ".yml"} -> "yaml"
          [] e = ".json" -> "json"
          [] e = ".toml" -> "toml"
          [] e = ".md" -> "markdown"
          [] e = ".rst" -> "rst"]

\* a variant: _detect_language without its '.tsx' entry
detect_languageNoTsx(ext) ==
    IF ext \in DOMAIN ext_to_lang \ {".tsx"} THEN ext_to_lang[ext] ELSE "unknown"

detect_language(ext) ==
    IF ext \in DOMAIN ext_to_lang THEN ext_to_lang[ext] ELSE "unknown"

\* one chunk dict; lines[a:b] is the Python slice the code joins
MkChunk(lines, a, b, start, end, type, language) ==
    [content |-> Join(Slice(lines, a, b)),
     start_line |-> start,
     end_line |-> end,
     type |-> type,
     language |-> language]

\* the whole-file chunk of _parse_python / _parse_javascript
FileChunk(content, lines, language) ==
    [content |-> content,
     start_line |-> 1,
     end_line |-> Len(lines),
     type |-> "file",
     language |-> language]

\* a variant: the closed chunk runs up to the definition line itself
PrevEndOverlapping(i) == i

\* the line a chunk ends on when the definition on line i closes it: i-1
PrevEnd(i) == i - 1

\* the scanners' loop state before the first line
ScanInit ==
    [chunks |-> <<>>, current_chunk |-> None, current_indent |-> 0,
     chunk_start |-> 0, brace_count |-> 0]

\* _parse_python: the body of `for i, line in enumerate(lines, 1)`
PyLine(lines, st, i) ==
    LET line == lines[i]
        stripped == LStrip(line)
        indent == Len(line) - Len(stripped)
    IN  IF stripped = <<>> \/ StartsWith(stripped, Hash) THEN st
        ELSE IF \/ StartsWith(stripped, KwDef)
                \/ StartsWith(stripped, KwClass)
                \/ StartsWith(stripped, KwAsyncDef)
        THEN [st EXCEPT
                !.chunks = IF st.current_chunk # None
                           THEN Append(@, MkChunk(lines, st.chunk_start - 1, PrevEnd(i),
                                                  st.chunk_start, PrevEnd(i),
                                                  st.current_chunk, "python"))
                           ELSE @,
                !.current_chunk = IF Contains(stripped, TxtDef)
                                  THEN "function" ELSE "class",
                !.chunk_start = i,
                !.current_indent = indent]
        ELSE IF st.current_chunk # None /\ indent <= st.current_indent
        THEN [st EXCEPT
                !.chunks = Append(@, MkChunk(lines, st.chunk_start - 1, i,
                                             st.chunk_start, i,
                                             st.current_chunk, "python")),
                !.current_chunk = None]
        ELSE st

RECURSIVE PyScan(_, _, _)
PyScan(lines, st, i) ==
    IF i > Len(lines) THEN st ELSE PyScan(lines, PyLine(lines, st, i), i + 1)

\* the chunk still open at the end of the file, then the whole-file fallback
ScanFinish(content, lines, st, language) ==
    LET closed == IF st.current_chunk # None
                  THEN Append(st.chunks,
                              MkChunk(lines, st.chunk_start - 1, Len(lines),
                                      st.chunk_start, Len(lines),
                                      st.current_chunk, language))
                  ELSE st.chunks
    IN  IF closed = <<>> THEN <<FileChunk(content, lines, language)>> ELSE closed

parse_python(content) ==
    LET lines == Split(content)
    IN  ScanFinish(content, lines, PyScan(lines, ScanInit, 1), "python")

\* _parse_javascript: the body of `for i, line in enumerate(lines, 1)`
JsLine(lines, st, i, language) ==
    LET line == lines[i]
        stripped == Strip(line)
        braces(s) == Count(s, "{") - Count(s, "}")
        isDecl == \E kw \in JsKeywords : Contains(stripped, kw)
        s1 == IF isDecl
              THEN [st EXCEPT
                      !.chunks = IF st.current_chunk # None
                                 THEN Append(@, MkChunk(lines, st.chunk_start - 1, PrevEnd(i),
                                                        st.chunk_start, PrevEnd(i),
                                                        st.current_chunk, language))
                                 ELSE @,
                      !.current_chunk =
                          IF Contains(stripped, TxtFunction) THEN "function"
                          ELSE IF Contains(stripped, TxtClass) THEN "class"
                          ELSE "variable",
                      !.chunk_start = i,
                      !.brace_count = braces(stripped)]
              ELSE st
        s2 == [s1 EXCEPT !.brace_count = @ + braces(line)]
    IN  IF s2.current_chunk # None /\ s2.brace_count = 0 /\ Contains(line, <<"{">>)
        THEN [s2 EXCEPT
                !.chunks = Append(@, MkChunk(lines, s2.chunk_start - 1, i,
                                             s2.chunk_start, i,
                                             s2.current_chunk, language)),
                !.current_chunk = None]
        ELSE s2

RECURSIVE JsScan(_, _, _, _)
JsScan(lines, st, i, language) ==
    IF i > Len(lines) THEN st
    ELSE JsScan(lines, JsLine(lines, st, i, language), i + 1, language)

parse_javascript(content, language) ==
    LET lines == Split(content)
    IN  ScanFinish(content, lines, JsScan(lines, ScanInit, 1, language), language)

\* max_chunk_size of _parse_generic
max_chunk_size == 100

\* a variant: end_line without the min(..., len(lines))
GenericEndUnclamped(i, n) == i + max_chunk_size

\* the end_line of the window that starts after line i of n lines
GenericEnd(i, n) == Min(i + max_chunk_size, n)

\* _parse_generic: for i in range(0, len(lines), max_chunk_size)
RECURSIVE GenericFrom(_, _, _)
GenericFrom(lines, i, language) ==
    IF i >= Len(lines) THEN <<>>
    ELSE <<[content |-> Join(Slice(lines, i, i + max_chunk_size)),
            start_line |-> i + 1,
            end_line |-> GenericEnd(i, Len(lines)),
            type |-> "code",
            language |-> language]>>
         \o GenericFrom(lines, i + max_chunk_size, language)

parse_generic(content, language) == GenericFrom(Split(content), 0, language)

\* what file_path.read_text gives: the content, or an exception
ReadOk(content) == [ok |-> TRUE, content |-> content]
ReadError == [ok |-> FALSE, content |-> <<>>]

\* parse_file: any exception (the read's) is logged and gives []
parse_file(ext, read) ==
    IF ~read.ok THEN <<>>
    ELSE LET language == detect_language(ext)
         IN  IF language = "python" THEN parse_python(read.content)
             ELSE IF language \in {"javascript", "typescript"}
                  THEN parse_javascript(read.content, language)
             ELSE parse_generic(read.content, language)

(***************************************************************************)
(* The file system: paths are sequences of segments, as pathlib keeps      *)
(* them.  str(path) is one-to-one on paths, so a path stands for its       *)
(* string.                                                                 *)
(***************************************************************************)
\* WORKSPACE_PATH = os.getenv("WORKSPACE_PATH", "/app/workspace")
WORKSPACE_PATH == <<"app", "workspace">>

\* workspace / project_path
PathJoin(base, rel) == base \o rel

IsUnder(p, base) ==
    /\ Len(p) > Len(base)
    /\ SubSeq(p, 1, Len(base)) = base

\* p.relative_to(base)
relative_to(p, base) == SubSeq(p, Len(base) + 1, Len(p))

\* the files of the workspace, in the order rglob('*') yields them
FileA == PathJoin(WORKSPACE_PATH, <<"a.py">>)
FileDep == PathJoin(WORKSPACE_PATH, <<"node_modules", "m.js">>)
FileTxt == PathJoin(WORKSPACE_PATH, <<"notes.txt">>)
FileSubA == PathJoin(WORKSPACE_PATH, <<"sub", "a.py">>)
AllFiles == <<FileA, FileDep, FileTxt, FileSubA>>

\* item.suffix
suffix(p) ==
    CASE p[Len(p)] = "a.py" -> ".py"
      [] p[Len(p)] = "m.js" -> ".js"
      [] p[Len(p)] = "notes.txt" -> ".txt"

\* any(pattern in str(item) for pattern in IGNORE_PATTERNS): of the names
\* of the model's paths only node_modules contains an ignore pattern
IsIgnored(p) == \E k \in 1..Len(p) : p[k] \in {"node_modules"}

\* the texts of the workspace files
TextA1 == <<"d", "e", "f", " ", "f", "(", ")", ":", NL, " ", " ", "x", "=", "1">>
TextA2 == <<"d", "e", "f", " ", "f", "(", ")", ":", NL, " ", " ", "x", "=", "2">>
\* batch_size = 10
batch_size == 10

\* as many one-line definitions as a batch holds points
TextA10 == Join([k \in 1..batch_size |-> <<"d", "e", "f", " ", "f", "(", ")", ":">>])
TextDep == <<"f", "(", ")", ";">>
TextTxt == <<"h", "i">>

\* the contents a file of the workspace can have
Texts(p) ==
    CASE p = FileA -> {TextA1, TextA2, TextA10}
      [] p = FileSubA -> {TextA1}
      [] p = FileDep -> {TextDep}
      [] p = FileTxt -> {TextTxt}

FileSet == {AllFiles[k] : k \in 1..Len(AllFiles)}

\* root.exists() and root.is_dir(): a directory exists when a file lies under it
IsDir(fs, root) == root = WORKSPACE_PATH \/ \E p \in DOMAIN fs : IsUnder(p, root)

\* find_code_files
find_code_files(fs, root) ==
    LET keep(p) ==
            /\ p \in DOMAIN fs
            /\ IsUnder(p, root)
            /\ ~IsIgnored(p)
            /\ suffix(p) \in CODE_EXTENSIONS
    IN  IF ~IsDir(fs, root) THEN <<>> ELSE SelectSeq(AllFiles, keep)

(***************************************************************************)
(* EmbeddingGenerator                                                      *)
(*                                                                         *)
(* A vector is kept as its length and what it holds: the service's         *)
(* embedding of a prompt, the zeros of the fallback, or nothing.           *)
(***************************************************************************)
\* VectorParams(size=768, ...)
VectorSize == 768
\* "prompt": text[:8192]
PromptLimit == 8192

\* a variant: the text submitted whole
PromptWhole(text) == text

\* the prompt of the request: text[:8192]
Prompt(text) == SubSeq(text, 1, Min(Len(text), PromptLimit))

\* what the awaited POST can do
EmbedOutcomes == {"ok", "nofield", "error"}

\* the vector the embedding service computes for a prompt
ServiceEmbedding(prompt) == [dim |-> VectorSize, val |-> <<"embedding", prompt>>]

\* [0.0] * 768
ZeroVector == [dim |-> VectorSize, val |-> <<"zeros">>]

\* result.get("embedding", []) when the response holds no embedding
EmptyVector == [dim |-> 0, val |-> <<>>]

\* generate_embedding(text), by the outcome of the POST
generate_embedding(text, outcome) ==
    CASE outcome = "ok" -> ServiceEmbedding(Prompt(text))
      [] outcome = "nofield" -> EmptyVector
      [] outcome = "error" -> ZeroVector

(***************************************************************************)
(* The Qdrant collection "codebase"                                        *)
(***************************************************************************)
\* create_collection(vectors_config=VectorParams(size=768, distance=COSINE))
NewCollection ==
    [exists |-> TRUE, size |-> VectorSize, distance |-> "Cosine", points |-> <<>>]

\* points written one after the other: a later point of the same id wins
RECURSIVE WriteAll(_, _)
WriteAll(stored, batch) ==
    IF batch = <<>> THEN stored
    ELSE LET p == Head(batch)
             put == [i \in DOMAIN stored \cup {p.id} |->
                        IF i = p.id THEN [vector |-> p.vector, payload |-> p.payload]
                        ELSE stored[i]]
         IN  WriteAll(put, Tail(batch))

\* the store refuses a batch for a missing collection or with a vector of
\* another length than the collection's
StoreAccepts(coll, batch) ==
    /\ coll.exists
    /\ \A k \in 1..Len(batch) : batch[k].vector.dim = coll.size

\* a variant: the batch replaces what the collection held
upsertReplacing(coll, batch) == [coll EXCEPT !.points = WriteAll(<<>>, batch)]

\* qdrant_client.upsert(collection_name, points): the collection afterwards
upsert(coll, batch) == [coll EXCEPT !.points = WriteAll(@, batch)]

(***************************************************************************)
(* perform_indexing                                                        *)
(***************************************************************************)
\* the project_path values a request can carry: none (the empty path), a
\* sub-project, a directory that does not exist
ProjectPaths == {<<>>, <<"sub">>, <<"nodir">>}

\* workspace = Path(WORKSPACE_PATH); if project_path: workspace / project_path
Workspace(project_path) ==
    IF project_path # <<>> THEN PathJoin(WORKSPACE_PATH, project_path)
    ELSE WORKSPACE_PATH

\* a variant: the chunk content hashed into the id as well
IdKeyWithContent(file_path, chunk) ==
    <<file_path, chunk.start_line, chunk.end_line, chunk.content>>

\* the key hashed into the point id: f"{file_path}:{start_line}:{end_line}"
\* with file_path the path find_code_files yielded
IdKey(file_path, chunk) == <<file_path, chunk.start_line, chunk.end_line>>

\* int(hashlib.md5(key.encode()).hexdigest()[:8], 16): the hash is kept as a
\* one-to-one tag of its key (collisions of the 32-bit prefix are left out)
PointId(file_path, chunk) == <<"md5", IdKey(file_path, chunk)>>

\* the payload of one chunk's point
MkPayload(file_path, chunk, workspace, project_path) ==
    [file_path |-> relative_to(file_path, workspace),
     content |-> chunk.content,
     start_line |-> chunk.start_line,
     end_line |-> chunk.end_line,
     language |-> chunk.language,
     chunk_type |-> chunk.type,
     project_path |-> IF project_path # <<>>
                      THEN relative_to(workspace, WORKSPACE_PATH)
                      ELSE <<"workspace">>]

\* a variant: the id hashed from the path relative to the indexed root
MkPointRelativeId(file_path, chunk, embedding, workspace, project_path) ==
    [id |-> PointId(relative_to(file_path, workspace), chunk),
     vector |-> embedding,
     payload |-> MkPayload(file_path, chunk, workspace, project_path)]

\* the PointStruct of one chunk
MkPoint(file_path, chunk, embedding, workspace, project_path) ==
    [id |-> PointId(file_path, chunk),
     vector |-> embedding,
     payload |-> MkPayload(file_path, chunk, workspace, project_path)]

(***************************************************************************)
(* State                                                                   *)
(***************************************************************************)
VARIABLES
    tree,          \* the workspace: file path -> content
    collection,    \* the Qdrant collection: [exists, size, points]
    rpc,           \* per run: "pending", "file", "await", "done", "failed"
    rproject,      \* per run: the request's project_path
    rforce,        \* per run: the request's force_reindex
    rlog,          \* per run: the log line the task ended with
    code_files,    \* per run: list(code_parser.find_code_files(workspace))
    fidx,          \* per run: the index of the file the loop is at (1-based)
    chunks,        \* per run: parse_file(file_path) of the current file
    cidx,          \* per run: the index of the chunk being embedded
    points,        \* per run: the pending batch
    hist,          \* history: the latest run and the one before it, each as
                   \*   [run, project, tree] at the moment it started
    startColl,     \* history: the collection when the latest run started
    faults,        \* history: the failures the latest run met
    nfaults,       \* history: the failures injected so far
    lastBatch,     \* history: the batch of the latest upsert call
    written,       \* history, per run: the points of its accepted upserts
    stale,         \* history: the runs in progress at the latest clear_index
    src_file,      \* the chunker's input: [ext, content]
    parsed,        \* the chunker's call: [called, readOk, chunks]
    embed_call,    \* the embedder's call: [called, text, outcome, prompt, result]
    booted,        \* the service's start: [done, before, log]
    request,       \* the retrieval or status request being answered: [kind,
                   \*   query, project_path, limit, deps], deps what its
                   \*   dependencies do meanwhile
    response       \* what its caller got: [status, results, count, context_used]
                   \*   of a retrieval, [status, indexed_files, total_files,
                   \*   project_path] of a status, and, as history, whether
                   \*   the request failed

pipeVars ==
    <<tree, collection, rpc, rproject, code_files, fidx, chunks, cidx, points,
      hist, startColl, faults, nfaults, lastBatch, rforce, rlog, written>>
parseVars == <<src_file, parsed>>
embedVars == <<embed_call>>
bootVars == <<booted>>
ragVars == <<request, response>>
clearVars == <<stale>>
\* all but the pipeline's
sideVars == <<src_file, parsed, embed_call, booted, request, response, stale>>
vars ==
    <<tree, collection, rpc, rproject, code_files, fidx, chunks, cidx, points,
      hist, startColl, faults, nfaults, lastBatch, rforce, rlog, written,
      src_file, parsed, embed_call, booted, request, response, stale>>

\* the indexing runs the model lets a client request, one after the other
MaxRuns == 2
Runs == 1..MaxRuns
\* the failures (of a read, an embedding call, an upsert) the model injects
MaxFaults == 1

Idle(r) == rpc[r] \in {"pending", "done", "failed"}

NoFaults == [read |-> {}, embed |-> FALSE, upsert |-> FALSE]

\* the log line a task ends with: none yet, the missing workspace, the
\* completion with its total_files, the failure of the outer except
NoLog == [event |-> "none"]
LogNoWorkspace == [event |-> "Workspace path does not exist"]
LogComplete(total_files) == [event |-> "Indexing complete", total_files |-> total_files]
LogFailed == [event |-> "Indexing failed"]

\* a failure may be injected while the budget lasts
MayFail(failing) == failing => nfaults < MaxFaults
Charge(failing) == IF failing THEN nfaults + 1 ELSE nfaults

InitPipeline ==
    /\ tree \in {t \in [FileSet -> UNION {Texts(p) : p \in FileSet}] :
                    \A p \in FileSet : t[p] \in Texts(p)}
    /\ collection = NewCollection
    /\ rpc = [r \in Runs |-> "pending"]
    /\ rproject = [r \in Runs |-> <<>>]
    /\ rforce = [r \in Runs |-> FALSE]
    /\ rlog = [r \in Runs |-> NoLog]
    /\ written = [r \in Runs |-> 0]
    /\ code_files = [r \in Runs |-> <<>>]
    /\ fidx = [r \in Runs |-> 0]
    /\ chunks = [r \in Runs |-> <<>>]
    /\ cidx = [r \in Runs |-> 0]
    /\ points = [r \in Runs |-> <<>>]
    /\ hist = <<>>
    /\ startColl = NewCollection
    /\ faults = NoFaults
    /\ nfaults = 0
    /\ lastBatch = <<>>

\* no embedder call of its own, the service started on an empty store, no
\* retrieval request yet
NoCall == [called |-> FALSE, text |-> <<>>, outcome |-> "ok", prompt |-> <<>>,
           result |-> [dim |-> 0, val |-> <<>>]]
\* no collection "codebase" in the store
NoCollection == [exists |-> FALSE, size |-> 0, distance |-> "none", points |-> <<>>]
Started == [done |-> TRUE, before |-> NoCollection, log |-> "created"]
NoRequest ==
    [kind |-> "none", query |-> <<>>, project_path |-> <<>>, limit |-> 0,
     deps |-> "ok"]
NoResponse ==
    [status |-> "none", results |-> <<>>, count |-> 0, context_used |-> FALSE,
     failed |-> FALSE]
InitSide ==
    /\ embed_call = NoCall
    /\ booted = Started
    /\ request = NoRequest
    /\ response = NoResponse
    /\ stale = {}

Init ==
    /\ InitPipeline
    /\ src_file = [ext |-> ".py", content |-> <<>>]
    /\ parsed = [called |-> FALSE, readOk |-> TRUE, chunks |-> <<>>]
    /\ InitSide

(***************************************************************************)
(* perform_indexing, from one await to the next                            *)
(***************************************************************************)
\* a variant: the loop is left (break) instead of going on (continue)
NextFileBreak(i, n) == n + 1

\* a variant: the loop stays at the file it was at
NextFileRetry(i, n) == i

\* the file the loop goes on with after file i of n: the next one
NextFile(i, n) == i + 1

\* a variant: a forced run starts from an emptied collection
CollectionAtStartForced(coll, force_reindex) ==
    IF force_reindex THEN [coll EXCEPT !.points = <<>>] ELSE coll

\* the collection after the statements before the loop: force_reindex is a
\* parameter no statement of perform_indexing reads
CollectionAtStart(coll, force_reindex) == coll

\* the background task starts: the workspace is resolved and enumerated.
\* A missing workspace is logged and the task returns.
StartRun(r, project_path, force_reindex) ==
    /\ rpc[r] = "pending"
    /\ rproject' = [rproject EXCEPT ![r] = project_path]
    /\ rforce' = [rforce EXCEPT ![r] = force_reindex]
    /\ written' = [written EXCEPT ![r] = 0]
    /\ hist' = <<[run |-> r, project |-> project_path, tree |-> tree]>>
                \o SubSeq(hist, 1, Min(1, Len(hist)))
    /\ startColl' = collection
    /\ faults' = NoFaults
    /\ LET workspace == Workspace(project_path)
       IN  IF ~(workspace = WORKSPACE_PATH \/ \E p \in DOMAIN tree : IsUnder(p, workspace))
           THEN /\ rpc' = [rpc EXCEPT ![r] = "failed"]
                /\ rlog' = [rlog EXCEPT ![r] = LogNoWorkspace]
                /\ UNCHANGED <<code_files, fidx>>
           ELSE /\ rpc' = [rpc EXCEPT ![r] = "file"]
                /\ rlog' = [rlog EXCEPT ![r] = NoLog]
                /\ code_files' = [code_files EXCEPT ![r] = find_code_files(tree, workspace)]
                /\ fidx' = [fidx EXCEPT ![r] = 1]
    /\ collection' = CollectionAtStart(collection, force_reindex)
    /\ UNCHANGED <<tree, chunks, cidx, points, nfaults, lastBatch>>
    /\ UNCHANGED sideVars

\* code_parser.parse_file(file_path) of a file that is read, for every file
\* of the workspace and every text it can hold
ParsedText ==
    [p \in FileSet |-> [t \in Texts(p) |-> parse_file(suffix(p), ReadOk(t))]]

\* the for loop reaches a file: chunks = code_parser.parse_file(file_path);
\* with no chunk the loop goes on to the next file, otherwise the first
\* chunk's embedding is awaited
ParseFile(r, readOk) ==
    /\ rpc[r] = "file"
    /\ fidx[r] <= Len(code_files[r])
    /\ MayFail(~readOk)
    /\ nfaults' = Charge(~readOk)
    /\ LET file_path == code_files[r][fidx[r]]
           cs == IF readOk THEN ParsedText[file_path][tree[file_path]]
                 ELSE parse_file(suffix(file_path), ReadError)
       IN  /\ chunks' = [chunks EXCEPT ![r] = cs]
           /\ faults' = [faults EXCEPT !.read = IF readOk THEN @ ELSE @ \cup {file_path}]
           /\ IF cs = <<>>
              THEN /\ fidx' = [fidx EXCEPT ![r] = NextFile(@, Len(code_files[r]))]
                   /\ UNCHANGED <<rpc, cidx>>
              ELSE /\ rpc' = [rpc EXCEPT ![r] = "await"]
                   /\ cidx' = [cidx EXCEPT ![r] = 1]
                   /\ UNCHANGED fidx
    /\ UNCHANGED <<tree, collection, rproject, code_files, points, hist, startColl,
                   lastBatch, rforce, rlog, written>>
    /\ UNCHANGED sideVars

\* generate_embedding returns: the point is built and appended; a full batch
\* is upserted; an exception of the upsert ends the file (except: continue)
\* with the batch kept as it is
EmbedReturn(r, outcome, storeUp) ==
    /\ rpc[r] = "await"
    /\ LET file_path == code_files[r][fidx[r]]
           chunk == chunks[r][cidx[r]]
           embedding == generate_embedding(chunk.content, outcome)
           point == MkPoint(file_path, chunk, embedding,
                            Workspace(rproject[r]), rproject[r])
           batch == Append(points[r], point)
           flush == Len(batch) >= batch_size
           accepted == storeUp /\ StoreAccepts(collection, batch)
           raised == flush /\ ~accepted
           injected == (IF outcome = "ok" THEN 0 ELSE 1)
                       + (IF flush /\ ~storeUp THEN 1 ELSE 0)
       IN  /\ flush \/ storeUp
           /\ nfaults + injected <= MaxFaults
           /\ nfaults' = nfaults + injected
           /\ faults' = [faults EXCEPT !.embed = @ \/ outcome # "ok",
                                        !.upsert = @ \/ raised]
           /\ IF flush
              THEN /\ lastBatch' = batch
                   /\ IF accepted
                      THEN /\ collection' = upsert(collection, batch)
                           /\ points' = [points EXCEPT ![r] = <<>>]
                           /\ written' = [written EXCEPT ![r] = @ + Len(batch)]
                      ELSE /\ points' = [points EXCEPT ![r] = batch]
                           /\ UNCHANGED <<collection, written>>
              ELSE /\ points' = [points EXCEPT ![r] = batch]
                   /\ UNCHANGED <<collection, lastBatch, written>>
           /\ IF raised \/ cidx[r] >= Len(chunks[r])
              THEN /\ rpc' = [rpc EXCEPT ![r] = "file"]
                   /\ fidx' = [fidx EXCEPT ![r] = NextFile(@, Len(code_files[r]))]
                   /\ UNCHANGED cidx
              ELSE /\ cidx' = [cidx EXCEPT ![r] = @ + 1]
                   /\ UNCHANGED <<rpc, fidx>>
    /\ UNCHANGED <<tree, rproject, code_files, chunks, hist, startColl, rforce, rlog>>
    /\ UNCHANGED sideVars

\* after the loop: `if points: upsert`, then "Indexing complete" ("done");
\* an exception of this upsert goes to the outer except, which logs
\* "Indexing failed" ("failed").  The task returns and its locals are gone.
FinishRun(r, storeUp) ==
    /\ rpc[r] = "file"
    /\ fidx[r] > Len(code_files[r])
    /\ LET batch == points[r]
           accepted == storeUp /\ StoreAccepts(collection, batch)
       IN  IF batch # <<>>
           THEN /\ MayFail(~storeUp)
                /\ nfaults' = Charge(~storeUp)
                /\ lastBatch' = batch
                /\ collection' = IF accepted THEN upsert(collection, batch) ELSE collection
                /\ written' = [written EXCEPT ![r] = IF accepted THEN @ + Len(batch) ELSE @]
                /\ faults' = [faults EXCEPT !.upsert = @ \/ ~accepted]
                /\ rpc' = [rpc EXCEPT ![r] = IF accepted THEN "done" ELSE "failed"]
                /\ rlog' = [rlog EXCEPT ![r] = IF accepted
                                                THEN LogComplete(Len(code_files[r]))
                                                ELSE LogFailed]
           ELSE /\ storeUp
                /\ rpc' = [rpc EXCEPT ![r] = "done"]
                /\ rlog' = [rlog EXCEPT ![r] = LogComplete(Len(code_files[r]))]
                /\ UNCHANGED <<collection, lastBatch, faults, nfaults, written>>
    /\ code_files' = [code_files EXCEPT ![r] = <<>>]
    /\ fidx' = [fidx EXCEPT ![r] = 0]
    /\ chunks' = [chunks EXCEPT ![r] = <<>>]
    /\ cidx' = [cidx EXCEPT ![r] = 0]
    /\ points' = [points EXCEPT ![r] = <<>>]
    /\ UNCHANGED <<tree, rproject, hist, startColl, rforce>>
    /\ UNCHANGED sideVars

\* a file of the workspace is edited between two runs
EditFile(p, text) ==
    /\ \A r \in Runs : Idle(r)
    /\ \E r \in Runs : rpc[r] # "pending"
    /\ \E r \in Runs : rpc[r] = "pending"
    /\ tree = hist[1].tree
    /\ text \in Texts(p)
    /\ text # tree[p]
    /\ tree' = [tree EXCEPT ![p] = text]
    /\ UNCHANGED <<collection, rpc, rproject, code_files, fidx, chunks, cidx,
                   points, hist, startColl, faults, nfaults, lastBatch, rforce,
                   rlog, written>>
    /\ UNCHANGED sideVars

\* force_reindex of the requests drawn where the flag is not the subject:
\* the field's default, `force_reindex: bool = Field(default=False)`
DefaultForce == {FALSE}

\* run r is requested after the runs before it are through
AfterEarlierRuns(r) == \A q \in Runs : q < r => rpc[q] \in {"done", "failed"}

Next ==
    \/ \E r \in Runs, pp \in ProjectPaths, force \in DefaultForce :
          AfterEarlierRuns(r) /\ StartRun(r, pp, force)
    \/ \E r \in Runs, readOk \in BOOLEAN : ParseFile(r, readOk)
    \/ \E r \in Runs, o \in EmbedOutcomes, up \in BOOLEAN : EmbedReturn(r, o, up)
    \/ \E r \in Runs, up \in BOOLEAN : FinishRun(r, up)
    \/ \E p \in FileSet : \E t \in Texts(p) : EditFile(p, t)

Spec == Init /\ [][Next]_vars

(***************************************************************************)
(* The chunker on its own: parse_file applied to one file drawn from the   *)
(* lines below.                                                            *)
(***************************************************************************)
PyLines ==
    {<<>>,
     <<"#", "c">>,
     <<"d", "e", "f", " ", "f", "(", ")", ":">>,
     <<"c", "l", "a", "s", "s", " ", "C", ":">>,
     <<" ", " ", "x", "=", "1">>,
     <<"x", "=", "1">>,
     <<" ", " ", "d", "e", "f", " ", "g", "(", ")", ":">>}

JsLines ==
    {<<>>,
     <<"f", "u", "n", "c", "t", "i", "o", "n", " ", "f", "(", ")", "{">>,
     <<"f", "u", "n", "c", "t", "i", "o", "n", " ", "g", "(", ")", "{", "}">>,
     <<"}">>,
     <<"l", "e", "t", " ", "x", "=", "1", ";">>,
     <<"i", "f", "(", "x", ")", "{">>,
     <<"}", "e", "l", "s", "e", "{">>}

\* the numbers of lines of the generic chunker's inputs: around the
\* multiples of its window
GenericLengths ==
    {m \in 1..(MaxWindows * max_chunk_size + 1) :
        \E w \in 0..MaxWindows : \E d \in {-1, 0, 1} : m = w * max_chunk_size + d}

ScannerExts == {e \in CODE_EXTENSIONS :
                   detect_language(e) \in {"python", "javascript", "typescript"}}

\* the chunker's inputs: a Python or a TypeScript file of 1 .. MaxLines
\* lines, an empty file of every scanned extension, and for every other
\* extension a file of empty lines
IsParseInput(f) ==
    \/ \E n \in 1..MaxLines : \E ls \in [1..n -> PyLines] :
          f = [ext |-> ".py", content |-> Join(ls)]
    \/ \E n \in 1..MaxLines : \E ls \in [1..n -> JsLines] :
          f = [ext |-> ".ts", content |-> Join(ls)]
    \/ \E e \in ScannerExts : f = [ext |-> e, content |-> <<>>]
    \/ \E e \in CODE_EXTENSIONS \ ScannerExts : \E n \in GenericLengths :
          f = [ext |-> e, content |-> [k \in 1..(n - 1) |-> NL]]

InitParse ==
    /\ IsParseInput(src_file)
    /\ parsed = [called |-> FALSE, readOk |-> TRUE, chunks |-> <<>>]
    /\ tree = [p \in FileSet |-> CHOOSE t \in Texts(p) : TRUE]
    /\ collection = NewCollection
    /\ rpc = [r \in Runs |-> "pending"]
    /\ rproject = [r \in Runs |-> <<>>]
    /\ rforce = [r \in Runs |-> FALSE]
    /\ rlog = [r \in Runs |-> NoLog]
    /\ written = [r \in Runs |-> 0]
    /\ code_files = [r \in Runs |-> <<>>]
    /\ fidx = [r \in Runs |-> 0]
    /\ chunks = [r \in Runs |-> <<>>]
    /\ cidx = [r \in Runs |-> 0]
    /\ points = [r \in Runs |-> <<>>]
    /\ hist = <<>>
    /\ startColl = NewCollection
    /\ faults = NoFaults
    /\ nfaults = 0
    /\ lastBatch = <<>>
    /\ InitSide

\* code_parser.parse_file(file_path), the read succeeding or raising
CallParseFile(readOk) ==
    /\ ~parsed.called
    /\ parsed' = [called |-> TRUE,
                  readOk |-> readOk,
                  chunks |-> parse_file(src_file.ext,
                                        IF readOk THEN ReadOk(src_file.content)
                                        ELSE ReadError)]
    /\ UNCHANGED src_file
    /\ UNCHANGED pipeVars
    /\ UNCHANGED <<embedVars, bootVars, ragVars, clearVars>>

NextParse == \E readOk \in BOOLEAN : CallParseFile(readOk)

SpecParse == InitParse /\ [][NextParse]_vars

(***************************************************************************)
(* Properties of the chunker (SpecParse)                                   *)
(***************************************************************************)
\* the call returned the chunks of a file that could be read
Parsed == parsed.called /\ parsed.readOk
ParsedLanguage == detect_language(src_file.ext)
ByScanner == ParsedLanguage \in {"python", "javascript", "typescript"}
\* the lines of the file: content.split('\n'), what an editor numbers
FileLines == Split(src_file.content)

\* C4: the chunks the Python and the JavaScript/TypeScript scanner return are
\* in increasing start_line order and pairwise disjoint: each chunk starts
\* strictly after the line the chunk before it ends on.
C4_ChunksOrderedDisjoint ==
    (Parsed /\ ByScanner) =>
        \A k \in 1..(Len(parsed.chunks) - 1) :
            parsed.chunks[k + 1].start_line > parsed.chunks[k].end_line

\* a Python file with a chunk closed by the next definition and a chunk
\* closed by a dedent, three chunks in all
C4_Witness ==
    /\ Parsed
    /\ ParsedLanguage = "python"
    /\ Len(parsed.chunks) >= 3
    /\ \E k \in 1..(Len(parsed.chunks) - 1) :
          parsed.chunks[k + 1].start_line = parsed.chunks[k].end_line + 1
    /\ \E k \in 1..(Len(parsed.chunks) - 1) :
          parsed.chunks[k + 1].start_line > parsed.chunks[k].end_line + 1

\* C5: every chunk of every chunker has 1 <= start_line <= end_line <= the
\* number of lines of the file, the lines being the '\n'-separated ones
\* (a final '\n' is followed by a last, empty line).
C5_ChunkWithinFile ==
    Parsed =>
        \A k \in 1..Len(parsed.chunks) :
            /\ 1 <= parsed.chunks[k].start_line
            /\ parsed.chunks[k].start_line <= parsed.chunks[k].end_line
            /\ parsed.chunks[k].end_line <= Len(FileLines)

\* a file the generic chunker cuts into windows, the last one not full
C5_Witness ==
    /\ Parsed
    /\ ~ByScanner
    /\ Len(parsed.chunks) >= 2
    /\ Len(FileLines) = max_chunk_size + 1
    /\ parsed.chunks[Len(parsed.chunks)].end_line = Len(FileLines)

\* a line that is neither blank nor only a comment
IsCodeLine(line) ==
    /\ LStrip(line) # <<>>
    /\ ~StartsWith(LStrip(line), Hash)

\* C6: the chunks of a scanned file cover it: every line that is not blank
\* and not comment-only lies in the line range of some chunk.
C6_ChunksCoverFile ==
    (Parsed /\ ByScanner) =>
        \A n \in 1..Len(FileLines) :
            IsCodeLine(FileLines[n]) =>
                \E k \in 1..Len(parsed.chunks) :
                    /\ parsed.chunks[k].start_line <= n
                    /\ n <= parsed.chunks[k].end_line

\* the first later code line at indentation <= that of line s; 0 if none
Indent(line) == Len(line) - Len(LStrip(line))
FirstDedent(lines, s) ==
    LET later == {n \in (s + 1)..Len(lines) :
                     IsCodeLine(lines[n]) /\ Indent(lines[n]) <= Indent(lines[s])}
    IN  IF later = {} THEN 0 ELSE CHOOSE n \in later : \A m \in later : n <= m

\* C7: in the Python scanner a chunk opened on line s at indentation L ends
\* on the line before the first later non-blank, non-comment line whose
\* indentation is <= L; that line is not part of the chunk.
C7_PythonChunkEndsBeforeDedent ==
    (Parsed /\ ParsedLanguage = "python") =>
        \A k \in 1..Len(parsed.chunks) :
            LET c == parsed.chunks[k]
                d == FirstDedent(FileLines, c.start_line)
            IN  (c.type \in {"function", "class"} /\ d # 0) => c.end_line = d - 1

\* C8 as stated: an empty file of any allow-listed extension gives exactly one
\* chunk, of kind 'file', spanning the empty content.
C8_EmptyFileOneFileChunk ==
    (Parsed /\ src_file.content = <<>>) =>
        /\ Len(parsed.chunks) = 1
        /\ parsed.chunks[1].type = "file"
        /\ parsed.chunks[1].content = <<>>

\* C8 amended: an empty file of any allow-listed extension gives exactly one
\* chunk spanning the empty content (lines 1 to 1); its kind is 'file' for
\* the Python and JavaScript/TypeScript extensions and 'code' for every other
\* extension.
C8_EmptyFileOneChunk ==
    (Parsed /\ src_file.content = <<>>) =>
        /\ Len(parsed.chunks) = 1
        /\ parsed.chunks[1].content = <<>>
        /\ parsed.chunks[1].start_line = 1
        /\ parsed.chunks[1].end_line = 1
        /\ parsed.chunks[1].type =
              IF src_file.ext \in {".py", ".js", ".jsx", ".ts", ".tsx"}
              THEN "file" ELSE "code"

\* an empty file the generic chunker was given
C8_Witness ==
    /\ Parsed
    /\ src_file.content = <<>>
    /\ src_file.ext = ".md"
    /\ Len(parsed.chunks) = 1
    /\ parsed.chunks[1].type = "code"

(***************************************************************************)
(* Properties of perform_indexing (Spec)                                   *)
(***************************************************************************)
Range(f) == {f[k] : k \in DOMAIN f}

\* the latest run, as recorded when it started, and the run before it
Latest == hist[1]
Previous == hist[2]
LatestDone == Len(hist) >= 1 /\ rpc[hist[1].run] = "done"
\* two runs of the same scope, one after the other, both through
TwoRunsDone ==
    /\ Len(hist) = 2
    /\ rpc[hist[1].run] = "done"
    /\ rpc[hist[2].run] = "done"
    /\ hist[1].project = hist[2].project

\* what a run h enumerates and what the chunker makes of file p of its tree
Enumerated(h) == Range(find_code_files(h.tree, Workspace(h.project)))
ChunksOf(h, p) == parse_file(suffix(p), ReadOk(h.tree[p]))
IdsOfFile(p, cs) == {PointId(p, cs[k]) : k \in 1..Len(cs)}
IdsOf(h) == UNION {IdsOfFile(p, ChunksOf(h, p)) : p \in Enumerated(h)}

\* chunk c of file p is stored under its id with its content
Stored(coll, p, c) ==
    LET id == PointId(p, c)
    IN  /\ id \in DOMAIN coll.points
        /\ coll.points[id].payload.content = c.content
        /\ coll.points[id].payload.start_line = c.start_line
        /\ coll.points[id].payload.end_line = c.end_line

\* every chunk of run h's tree is stored in coll
FullyIndexed(h, coll) ==
    \A p \in Enumerated(h) :
        LET cs == ChunksOf(h, p)
        IN  \A k \in 1..Len(cs) : Stored(coll, p, cs[k])

\* C1: a second run over the unchanged tree, after a first run that stored
\* every chunk, leaves the collection as it was: same ids, same payloads,
\* same vectors, whatever the embedding service does during the two runs.
C1_SecondRunChangesNothing ==
    ( /\ TwoRunsDone
      /\ hist[1].tree = hist[2].tree
      /\ FullyIndexed(Previous, startColl)
      /\ faults.read = {}
      /\ ~faults.upsert )
    => collection = startColl

\* file p has the same chunk line ranges in the two runs' trees
SameRanges(p) ==
    LET new == ChunksOf(Latest, p)
        old == ChunksOf(Previous, p)
    IN  /\ Len(new) = Len(old)
        /\ \A k \in 1..Len(new) :
              /\ new[k].start_line = old[k].start_line
              /\ new[k].end_line = old[k].end_line

\* two runs of one scope, the chunk ranges of every file the same in both,
\* the second run with every read and every upsert succeeding
InPlaceCase ==
    /\ TwoRunsDone
    /\ \A p \in Enumerated(Latest) : SameRanges(p)
    /\ faults.read = {}
    /\ ~faults.upsert

\* C2: when file contents change between two sequential runs of one scope
\* and the chunk line ranges stay the same, the second run writes every chunk
\* under the identifier it had in the first run: the identifier then holds
\* the new content and (the embedding service answering) the vector of the
\* new content, and the collection has no identifier it did not have after
\* the first run stored its chunks.
C2_InPlaceUpdate ==
    InPlaceCase =>
        /\ \A p \in Enumerated(Latest) :
              LET news == ChunksOf(Latest, p)
                  olds == ChunksOf(Previous, p)
              IN  \A k \in 1..Len(news) :
                      LET new == news[k]
                          old == olds[k]
                      IN  /\ PointId(p, new) = PointId(p, old)
                          /\ Stored(collection, p, new)
                          /\ ~faults.embed =>
                                collection.points[PointId(p, new)].vector
                                    = ServiceEmbedding(Prompt(new.content))
        /\ IdsOf(Previous) \subseteq DOMAIN startColl.points
              => DOMAIN collection.points = DOMAIN startColl.points

\* a file was edited between the runs, the first run had stored its chunks
\* and the second run replaced the content under the same identifiers
C2_Witness ==
    /\ InPlaceCase
    /\ faults = NoFaults
    /\ FullyIndexed(Previous, startColl)
    /\ \E p \in Enumerated(Latest) : hist[1].tree[p] # hist[2].tree[p]
    /\ DOMAIN collection.points = DOMAIN startColl.points
    /\ collection # startColl

\* the points the runs have built: those stored now, those stored when the
\* latest run started, those of the latest upsert call and the pending ones
\* (file_path, start_line, end_line) as stored in the point
StoredKey(pl) == <<pl.file_path, pl.start_line, pl.end_line>>
\* the same with the path find_code_files yielded, rebuilt from the payload
AbsPath(pl) ==
    PathJoin(IF pl.project_path = <<"workspace">> THEN WORKSPACE_PATH
             ELSE PathJoin(WORKSPACE_PATH, pl.project_path),
             pl.file_path)
AbsKey(pl) == <<AbsPath(pl), pl.start_line, pl.end_line>>
\* the identifier is the hash of the enumerated path and the line range
IdFromAbsKey(id, pl) ==
    id = PointId(AbsPath(pl),
                 [start_line |-> pl.start_line, end_line |-> pl.end_line,
                  content |-> pl.content])

\* a point by what the identifier is compared with
Keyed(id, pl) == [id |-> id, stored |-> StoredKey(pl)]
PointsOf(coll) == {Keyed(i, coll.points[i].payload) : i \in DOMAIN coll.points}
PointsIn(batch) == {Keyed(batch[k].id, batch[k].payload) : k \in DOMAIN batch}
KnownPoints ==
    PointsOf(collection) \cup PointsOf(startColl) \cup PointsIn(lastBatch)
        \cup UNION {PointsIn(points[r]) : r \in Runs}

\* C3 as stated: any two points written by any runs with equal stored
\* (file_path, start_line, end_line), file_path relative to the indexed root,
\* have equal identifiers.
C3_IdFromStoredPath ==
    \A a \in KnownPoints : \A b \in KnownPoints :
        a.stored = b.stored => a.id = b.id

\* C3 amended: a point's identifier is a pure function of (file_path,
\* start_line, end_line) with file_path the path as enumerated, the workspace
\* root included: every point a run builds or has written has the hash of
\* that triple as its identifier, so any two points for the same enumerated
\* path and line range have equal identifiers, whatever the chunk content,
\* the project scope and the run.
C3_IdFromEnumeratedPath ==
    /\ \A i \in DOMAIN collection.points :
          IdFromAbsKey(i, collection.points[i].payload)
    /\ \A i \in DOMAIN startColl.points :
          IdFromAbsKey(i, startColl.points[i].payload)
    /\ \A k \in DOMAIN lastBatch :
          IdFromAbsKey(lastBatch[k].id, lastBatch[k].payload)
    /\ \A r \in Runs : \A k \in DOMAIN points[r] :
          IdFromAbsKey(points[r][k].id, points[r][k].payload)

\* one file indexed by a run of the workspace and by a run of the
\* sub-project: one identifier, written under two scopes
C3_Witness ==
    \E i \in DOMAIN startColl.points \cap DOMAIN collection.points :
        /\ startColl.points[i].payload.project_path
              # collection.points[i].payload.project_path
        /\ AbsKey(startColl.points[i].payload) = AbsKey(collection.points[i].payload)

\* C9: a file whose read fails gives no chunk and does not end the run: the
\* loop goes on, and a run whose upserts succeed ends with every chunk of
\* every other enumerated file stored.
C9_ReadFailureSkipsFile ==
    /\ \A r \in Runs :
          rpc[r] = "await" => code_files[r][fidx[r]] \notin faults.read
    /\ (LatestDone /\ ~faults.upsert) =>
          \A p \in Enumerated(Latest) \ faults.read :
              LET cs == ChunksOf(Latest, p)
              IN  \A k \in 1..Len(cs) : Stored(collection, p, cs[k])

\* a run met a file it could not read and stored the chunks of another
C9_Witness ==
    /\ LatestDone
    /\ ~faults.upsert
    /\ faults.read # {}
    /\ \E p \in Enumerated(Latest) \ faults.read :
          LET cs == ChunksOf(Latest, p)
          IN  /\ Len(cs) >= 1
              /\ PointId(p, cs[1]) \notin DOMAIN startColl.points
              /\ Stored(collection, p, cs[1])

\* C10: every point passed to upsert carries a vector of the collection's
\* dimension, whatever the embedding call gave: success, a response without
\* an embedding field, a failure.
C10_UpsertVectorsHaveDimension ==
    \A k \in 1..Len(lastBatch) : lastBatch[k].vector.dim = VectorSize

\* C11: a failure of the embedding service for a chunk reaches the pipeline
\* as an error: no point with the substitute all-zero vector is passed to
\* upsert or stored for that chunk.
C11_NoZeroVectorWritten ==
    /\ \A k \in DOMAIN lastBatch : lastBatch[k].vector # ZeroVector
    /\ \A i \in DOMAIN collection.points : collection.points[i].vector # ZeroVector

(***************************************************************************)
(* The embedders on their own: generate_embedding applied to one text      *)
(* drawn from texts around the prompt limit.                               *)
(***************************************************************************)
\* texts are up to MaxOver characters long, or within MaxOver of the limit
MaxOver == 8

\* "prompt": text[:8192] of generate_query_embedding
QueryPromptLimit == 8192
QueryPrompt(text) == SubSeq(text, 1, Min(Len(text), QueryPromptLimit))

EmbedLengths ==
    (0..MaxOver) \cup ((PromptLimit - MaxOver)..(PromptLimit + MaxOver))
\* a text of n characters whose first and last character are marked
TextOfLength(n) ==
    [k \in 1..n |-> IF k = 1 THEN "s" ELSE IF k = n THEN "e" ELSE "a"]

InitEmbed ==
    /\ InitPipeline
    /\ src_file = [ext |-> ".py", content |-> <<>>]
    /\ parsed = [called |-> FALSE, readOk |-> TRUE, chunks |-> <<>>]
    /\ \E n \in EmbedLengths : embed_call = [NoCall EXCEPT !.text = TextOfLength(n)]
    /\ tree = [p \in FileSet |-> CHOOSE t \in Texts(p) : TRUE]
    /\ booted = Started
    /\ request = NoRequest
    /\ response = NoResponse
    /\ stale = {}

\* await embedding_generator.generate_embedding(text)
CallGenerateEmbedding(outcome) ==
    /\ ~embed_call.called
    /\ embed_call' = [embed_call EXCEPT
                         !.called = TRUE,
                         !.outcome = outcome,
                         !.prompt = Prompt(embed_call.text),
                         !.result = generate_embedding(embed_call.text, outcome)]
    /\ UNCHANGED pipeVars
    /\ UNCHANGED <<parseVars, bootVars, ragVars, clearVars>>

NextEmbed == \E o \in EmbedOutcomes : CallGenerateEmbedding(o)

SpecEmbed == InitEmbed /\ [][NextEmbed]_vars

\* p is the first min(len(text), limit) characters of text
IsPrefixUpTo(p, text, limit) ==
    /\ Len(p) = IF Len(text) <= limit THEN Len(text) ELSE limit
    /\ \A k \in 1..Len(p) : p[k] = text[k]

\* C12: for every input text the prompt the indexing embedder submits is
\* exactly the first min(len(text), 8192) characters of the text, and the
\* prompt generate_query_embedding builds from the same text is the same
\* prefix.
C12_PromptIsPrefix ==
    embed_call.called =>
        /\ IsPrefixUpTo(embed_call.prompt, embed_call.text, 8192)
        /\ IsPrefixUpTo(QueryPrompt(embed_call.text), embed_call.text, 8192)
        /\ embed_call.outcome = "ok" =>
              embed_call.result = ServiceEmbedding(embed_call.prompt)

\* a text longer than the limit was embedded: its tail was cut off
C12_Witness ==
    /\ embed_call.called
    /\ embed_call.outcome = "ok"
    /\ Len(embed_call.text) > 8192
    /\ Len(embed_call.prompt) = 8192
    /\ embed_call.prompt[1] = "s"
    /\ embed_call.prompt[8192] = "a"

(***************************************************************************)
(* The service's start on its own: startup() against a store that holds    *)
(* no collection "codebase" or one left by an earlier deployment.          *)
(***************************************************************************)
\* the earlier collection holds points under some of the ids 1 .. MaxIds
MaxIds == 3

\* a collection "codebase" of an earlier deployment
OldCollection(size, distance, ids) ==
    [exists |-> TRUE, size |-> size, distance |-> distance,
     points |-> [i \in ids |-> [vector |-> [dim |-> size, val |-> <<"old">>],
                                payload |-> <<>>]]]

StoreBefore ==
    {NoCollection} \cup
    {OldCollection(VectorSize + d, m, ids) :
        d \in {-VectorSize \div 2, 0, VectorSize},
        m \in {"Cosine", "Dot"},
        ids \in SUBSET (1..MaxIds)}

InitStartup ==
    /\ \E c \in StoreBefore :
          /\ booted = [done |-> FALSE, before |-> c, log |-> "none"]
          /\ collection = c
          /\ startColl = c
    /\ tree = [p \in FileSet |-> CHOOSE t \in Texts(p) : TRUE]
    /\ rpc = [r \in Runs |-> "pending"]
    /\ rproject = [r \in Runs |-> <<>>]
    /\ rforce = [r \in Runs |-> FALSE]
    /\ rlog = [r \in Runs |-> NoLog]
    /\ written = [r \in Runs |-> 0]
    /\ code_files = [r \in Runs |-> <<>>]
    /\ fidx = [r \in Runs |-> 0]
    /\ chunks = [r \in Runs |-> <<>>]
    /\ cidx = [r \in Runs |-> 0]
    /\ points = [r \in Runs |-> <<>>]
    /\ hist = <<>>
    /\ faults = NoFaults
    /\ nfaults = 0
    /\ lastBatch = <<>>
    /\ src_file = [ext |-> ".py", content |-> <<>>]
    /\ parsed = [called |-> FALSE, readOk |-> TRUE, chunks |-> <<>>]
    /\ embed_call = NoCall
    /\ request = NoRequest
    /\ response = NoResponse
    /\ stale = {}

\* startup(): get_collections; create_collection when "codebase" is not
\* among them; every exception is logged and swallowed
startup(storeUp) ==
    /\ ~booted.done
    /\ IF ~storeUp
       THEN /\ booted' = [booted EXCEPT !.done = TRUE, !.log = "error"]
            /\ collection' = booted.before
       ELSE IF ~booted.before.exists
       THEN /\ booted' = [booted EXCEPT !.done = TRUE, !.log = "created"]
            /\ collection' = NewCollection
       ELSE /\ booted' = [booted EXCEPT !.done = TRUE, !.log = "exists"]
            /\ collection' = booted.before
    /\ UNCHANGED <<tree, rpc, rproject, code_files, fidx, chunks, cidx, points,
                   hist, startColl, faults, nfaults, lastBatch, rforce, rlog,
                   written>>
    /\ UNCHANGED <<parseVars, embedVars, ragVars, clearVars>>

NextStartup == \E up \in BOOLEAN : startup(up)

SpecStartup == InitStartup /\ [][NextStartup]_vars

\* C13: with the store reachable, startup creates the collection (768,
\* cosine) when it is absent, changes nothing when a collection of that
\* shape exists, and fails loudly when a collection of the name exists with
\* another dimension.
C13_StartupIdempotent ==
    (booted.done /\ booted.log # "error") =>
        /\ ~booted.before.exists => collection = NewCollection
        /\ (booted.before.exists /\ booted.before.size = 768
               /\ booted.before.distance = "Cosine") => collection = booted.before
        /\ ~(booted.before.exists /\ booted.before.size # 768)

(***************************************************************************)
(* Retrieval: rag-chat (search_code, chat, generate_query_embedding) and   *)
(* the agents' get_codebase_context, next to one indexing run.             *)
(***************************************************************************)
\* rag-chat/main.py is not a Python module: the `try:` of line 170 has no
\* except or finally when line 178 dedents, and the interpreter refuses the
\* whole file with a SyntaxError.  The service never starts, no route is
\* registered, and a client of rag-chat:8003 gets a connection error.
RagChatLoads == FALSE

\* what the dependencies of one request do: all answer, the embedding
\* response lacks its field, the embedding / the store / the LLM call raises
Deps == {"ok", "nofield", "embed_error", "store_error", "llm_error"}

\* generate_query_embedding(text): the vector, or the exception re-raised
generate_query_embedding(text, deps) ==
    CASE deps = "embed_error" -> [raised |-> TRUE, vector |-> EmptyVector]
      [] deps = "nofield" -> [raised |-> FALSE, vector |-> EmptyVector]
      [] OTHER -> [raised |-> FALSE, vector |-> ServiceEmbedding(QueryPrompt(text))]

\* a variant: no filter whatever the request says
query_filterNone(project_path) == [must |-> <<>>]

\* query_filter={"must": [{"key": "project_path", "match": {"value": ...}}]}
\* if project_path else None
query_filter(project_path) ==
    IF project_path # <<>>
    THEN [must |-> <<[key |-> "project_path", value |-> project_path]>>]
    ELSE [must |-> <<>>]

\* the store's side of search: a point passes the filter when its payload
\* has the value under every key of `must`
Passes(pt, filter) ==
    \A k \in DOMAIN filter.must :
        /\ filter.must[k].key = "project_path"
        /\ pt.payload.project_path = filter.must[k].value

\* the similarity the store computes, as a rank: the query's own vector
\* first, the substitute zero vector last
Score(vector, query_vector) ==
    IF vector = query_vector THEN 2 ELSE IF vector = ZeroVector THEN 0 ELSE 1

\* the ids best score first, at most n of them
RECURSIVE Ranked(_, _, _, _)
Ranked(ids, coll, query_vector, n) ==
    IF n <= 0 \/ ids = {} THEN <<>>
    ELSE LET best == CHOOSE i \in ids : \A j \in ids :
                        Score(coll.points[j].vector, query_vector)
                            <= Score(coll.points[i].vector, query_vector)
         IN  <<best>> \o Ranked(ids \ {best}, coll, query_vector, n - 1)

\* qdrant_client.search(collection_name, query_vector, limit, query_filter):
\* the scored points, or an exception when the store is down, the
\* collection is missing or the vector has another length
StoreSearches(coll, query_vector, deps) ==
    deps # "store_error" /\ coll.exists /\ query_vector.dim = coll.size

search(coll, query_vector, limit, filter) ==
    LET ids == {i \in DOMAIN coll.points : Passes(coll.points[i], filter)}
        top == Ranked(ids, coll, query_vector, limit)
    IN  [k \in DOMAIN top |->
            [payload |-> coll.points[top[k]].payload,
             score |-> Score(coll.points[top[k]].vector, query_vector)]]

\* one entry of `results` / `sources`
ResultOf(hit) ==
    [file_path |-> hit.payload.file_path,
     content |-> hit.payload.content,
     start_line |-> hit.payload.start_line,
     end_line |-> hit.payload.end_line,
     language |-> hit.payload.language,
     score |-> hit.score]
SourceOf(hit) ==
    [file_path |-> hit.payload.file_path,
     start_line |-> hit.payload.start_line,
     end_line |-> hit.payload.end_line,
     language |-> hit.payload.language,
     score |-> hit.score]

\* HTTPException(status_code=500, detail=str(e))
Http500 ==
    [status |-> "error", results |-> <<>>, count |-> 0, context_used |-> FALSE,
     failed |-> TRUE]
\* the client's exception when nothing listens on rag-chat:8003
ConnectError ==
    [status |-> "unreachable", results |-> <<>>, count |-> 0, context_used |-> FALSE,
     failed |-> TRUE]

\* the statements of search_code, lines 171-177 and 180-209, for a request
\* with a JSON body
search_code(req, coll) ==
    LET emb == generate_query_embedding(req.query, req.deps)
    IN  IF emb.raised \/ ~StoreSearches(coll, emb.vector, req.deps)
        THEN Http500
        ELSE LET hits == search(coll, emb.vector, req.limit,
                                query_filter(req.project_path))
             IN  [status |-> "ok",
                  results |-> [k \in DOMAIN hits |-> ResultOf(hits[k])],
                  count |-> Len(hits),
                  context_used |-> FALSE,
                  failed |-> FALSE]

\* chat(request): the sources of the answer; call_ollama may raise
chat(req, coll) ==
    LET emb == generate_query_embedding(req.query, req.deps)
    IN  IF emb.raised \/ ~StoreSearches(coll, emb.vector, req.deps)
           \/ req.deps = "llm_error"
        THEN Http500
        ELSE LET hits == search(coll, emb.vector, req.limit,
                                query_filter(req.project_path))
             IN  [status |-> "ok",
                  results |-> [k \in DOMAIN hits |-> SourceOf(hits[k])],
                  count |-> 0,
                  context_used |-> Len(hits) > 0,
                  failed |-> FALSE]

\* what a client of rag-chat:8003 gets for POST /search and POST /chat;
\* a POST /search without a JSON body fails in `await request.json()`
RagChat(req, coll, hasBody) ==
    IF ~RagChatLoads THEN ConnectError
    ELSE IF ~hasBody THEN Http500
    ELSE IF req.kind = "chat" THEN chat(req, coll)
    ELSE search_code(req, coll)

\* what the api-gateway's caller gets for /api/search and /api/chat: the
\* answer of rag-chat passed on, and the gateway's own 500 when its client
\* call raises
Served(req, coll) ==
    LET answer == RagChat(req, coll, TRUE)
    IN  IF answer.status = "unreachable" THEN Http500 ELSE answer

\* BaseAgent.get_codebase_context: POST rag-chat:8003/search with query
\* parameters and no body; result.get("results", []) of the answer, and []
\* after a warning for every exception (a connection error, a 4xx/5xx)
get_codebase_context(req, coll) ==
    LET answer == RagChat(req, coll, FALSE)
    IN  IF answer.status # "ok"
        THEN [status |-> "ok", results |-> <<>>, count |-> 0,
              context_used |-> FALSE, failed |-> TRUE]
        ELSE [answer EXCEPT !.count = 0]

\* a variant: a retrieval that clears the collection
AfterRetrievalCleared(coll) == [coll EXCEPT !.points = <<>>]

\* the collection after the store calls of a retrieval
AfterRetrieval(coll) == coll

MaxLimit == 2
RetrievalKinds == {"search", "chat", "context"}
Query == <<"f">>

\* a search or chat request through the gateway, or an agent asking for
\* context, at any moment at which no other request is being answered
Retrieve(kind, project_path, limit, deps) ==
    /\ request = NoRequest
    /\ request' = [kind |-> kind, query |-> Query, project_path |-> project_path,
                   limit |-> limit, deps |-> deps]
    /\ response' = IF kind = "context"
                   THEN get_codebase_context(request', collection)
                   ELSE Served(request', collection)
    /\ collection' = AfterRetrieval(collection)
    /\ UNCHANGED <<tree, rpc, rproject, code_files, fidx, chunks, cidx, points,
                   hist, startColl, faults, nfaults, lastBatch, rforce, rlog,
                   written>>
    /\ UNCHANGED <<parseVars, embedVars, bootVars, clearVars>>

\* the caller has read the answer: the HTTP exchange is over
Answered ==
    /\ request # NoRequest
    /\ request' = NoRequest
    /\ response' = NoResponse
    /\ UNCHANGED <<pipeVars, parseVars, embedVars, bootVars, clearVars>>

\* the first run only: one indexing run with retrieval at every point of it
NextRag ==
    \/ \E pp \in ProjectPaths, force \in DefaultForce : StartRun(1, pp, force)
    \/ \E readOk \in BOOLEAN : ParseFile(1, readOk)
    \/ \E o \in EmbedOutcomes, up \in BOOLEAN : EmbedReturn(1, o, up)
    \/ \E up \in BOOLEAN : FinishRun(1, up)
    \/ \E k \in RetrievalKinds, pp \in {<<>>, <<"sub">>}, n \in 1..MaxLimit, d \in Deps :
          Retrieve(k, pp, n, d)
    \/ Answered

SpecRag == Init /\ [][NextRag]_vars

(***************************************************************************)
(* Properties of retrieval (SpecRag)                                       *)
(***************************************************************************)
\* the step is a retrieval
IsRetrieval == request = NoRequest /\ request' # NoRequest
QueryVector == ServiceEmbedding(QueryPrompt(Query))
\* the store's answer to the request on the collection as it is
HitsFor(req) == search(collection, QueryVector, req.limit, query_filter(req.project_path))

\* C14: a search (or chat) with limit K whose dependencies all answer gets
\* the store's results: at most K of them, in the store's order of
\* non-increasing score, none added, dropped or reordered, the count of a
\* search being the length of the list.
C14_SearchReturnsStoreResults ==
    [][(IsRetrieval /\ request'.kind \in {"search", "chat"} /\ request'.deps = "ok") =>
          /\ response'.status = "ok"
          /\ Len(response'.results) <= request'.limit
          /\ Len(response'.results) = Len(HitsFor(request'))
          /\ \A k \in DOMAIN response'.results :
                /\ response'.results[k].file_path = HitsFor(request')[k].payload.file_path
                /\ response'.results[k].start_line = HitsFor(request')[k].payload.start_line
                /\ response'.results[k].score = HitsFor(request')[k].score
          /\ \A k \in 1..(Len(response'.results) - 1) :
                response'.results[k].score >= response'.results[k + 1].score
          /\ request'.kind = "search" => response'.count = Len(response'.results)]_vars

Scopes == {<<"sub">>, <<"workspace">>}

C16_FailureIsNotEmptyResult ==
    [][IsRetrieval =>
          /\ (request'.deps = "ok" /\ collection.exists /\ collection.points = <<>>) =>
                (response'.status = "ok" /\ response'.results = <<>>)
          /\ response'.failed => response'.status = "error"]_vars

\* C19: retrieval is read-only: no search, chat or context request, served
\* or failed, at any point of an indexing run, changes the collection; every
\* change of the collection is the upsert of a batch by the indexing run.
C19_RetrievalReadsOnly ==
    [][/\ IsRetrieval => collection' = collection
       /\ collection' # collection =>
             (~IsRetrieval /\ collection' = upsert(collection, lastBatch'))]_vars

\* a request was made while the run waits for an embedding, with points in
\* the store
C19_Witness ==
    /\ request.kind \in {"search", "chat"}
    /\ response.failed
    /\ collection.points # <<>>
    /\ rpc[1] = "await"

(***************************************************************************)
(* Further properties of perform_indexing (Spec)                           *)
(***************************************************************************)
\* workspace.exists() for the root of a request
RootExists(project_path) ==
    \/ Workspace(project_path) = WORKSPACE_PATH
    \/ \E p \in DOMAIN tree : IsUnder(p, Workspace(project_path))

\* C17: a run goes from pending to running and ends completed or failed, and
\* it ends failed exactly when its root directory does not exist: with an
\* existing root no failure of a read, an embedding or a store write makes
\* the run end as failed.
C17_FailedIffRootMissing ==
    \A r \in Runs :
        /\ rpc[r] = "failed" => ~RootExists(rproject[r])
        /\ rpc[r] \in {"file", "await", "done"} => RootExists(rproject[r])

\* C20: between chunk iterations the pending batch holds fewer than
\* batch_size points, also after a failed upsert, and no upsert call carries
\* more than batch_size points.
C20_BatchBelowBatchSize ==
    /\ Len(lastBatch) <= 10
    /\ \A r \in Runs : Len(points[r]) < 10

(***************************************************************************)
(* Runs requested while earlier ones are under way: the tasks share one    *)
(* event loop, a task runs from one await to the next before another one   *)
(* is resumed.                                                             *)
(***************************************************************************)
\* no other task is in the middle of its synchronous stretch
LoopFree(r) == \A q \in Runs : q # r => rpc[q] # "file"

NextConc ==
    \/ \E r \in Runs, pp \in ProjectPaths, force \in DefaultForce :
          /\ \A q \in Runs : q < r => rpc[q] # "pending"
          /\ LoopFree(r)
          /\ StartRun(r, pp, force)
    \/ \E r \in Runs, readOk \in BOOLEAN : LoopFree(r) /\ ParseFile(r, readOk)
    \/ \E r \in Runs, o \in EmbedOutcomes, up \in BOOLEAN :
          LoopFree(r) /\ EmbedReturn(r, o, up)
    \/ \E r \in Runs, up \in BOOLEAN : LoopFree(r) /\ FinishRun(r, up)

SpecConc == Init /\ [][NextConc]_vars

Active(r) == rpc[r] \in {"file", "await"}

\* C18: at most one indexing run is active at a time for a project scope: a
\* request that arrives while a run of its scope is active is queued or
\* rejected, and two runs never interleave their writes.
C18_OneActiveRunPerScope ==
    \A r \in Runs : \A q \in Runs :
        (r # q /\ Active(r) /\ Active(q)) => rproject[r] # rproject[q]

(***************************************************************************)
(* Further properties of the chunker (SpecParse)                           *)
(***************************************************************************)
\* the running brace depth over the characters of one line, from character
\* k on: w is [depth, positive, zero], positive once the depth has been
\* above zero, zero once it came back to zero after that
RECURSIVE BraceWalk(_, _, _)
BraceWalk(line, k, w) ==
    IF k > Len(line) THEN w
    ELSE LET d == IF line[k] = "{" THEN w.depth + 1
                  ELSE IF line[k] = "}" THEN w.depth - 1
                  ELSE w.depth
         IN  BraceWalk(line, k + 1,
                       [depth |-> d,
                        positive |-> w.positive \/ d > 0,
                        zero |-> w.zero \/ (w.positive /\ d = 0)])

\* the first line from line i on at which the depth counted from the
\* declaration line returns to zero after having been positive, 0 if none
RECURSIVE BalancedLine(_, _, _)
BalancedLine(lines, i, w) ==
    IF i > Len(lines) THEN 0
    ELSE LET after == BraceWalk(lines[i], 1, w)
         IN  IF after.zero THEN i ELSE BalancedLine(lines, i + 1, after)

IsJsDeclaration(line) == \E kw \in JsKeywords : Contains(Strip(line), kw)

\* C21: in the JavaScript/TypeScript scanner a chunk opened on a declaration
\* line closes on the first line at which the running brace depth, counted
\* once per character from the declaration line on, returns to zero after
\* having been positive (no other declaration line coming before that line).
C21_JsChunkClosesAtBalance ==
    (Parsed /\ ParsedLanguage \in {"javascript", "typescript"}) =>
        \A k \in 1..Len(parsed.chunks) :
            LET c == parsed.chunks[k]
                e == BalancedLine(FileLines, c.start_line,
                                  [depth |-> 0, positive |-> FALSE, zero |-> FALSE])
            IN  (/\ c.type # "file"
                 /\ e # 0
                 /\ \A n \in (c.start_line + 1)..e : ~IsJsDeclaration(FileLines[n]))
                => c.end_line = e

(***************************************************************************)
(* Properties of the run's end and of its writes (Spec)                    *)
(***************************************************************************)
\* the run has ended: "done" or "failed"
Ended(r) == rpc[r] \in {"done", "failed"}
\* the latest run has ended
LatestEnded == hist # <<>> /\ Ended(hist[1].run)

\* C22: when an upsert failed during a run over an existing root, the run
\* does not end as failed (the failure is fatal for the batch only) and the
\* line it ends with reports the number of points written, equal to the
\* number of points its accepted upserts wrote.
C22_PartialCompletionReported ==
    (LatestEnded /\ RootExists(hist[1].project) /\ faults.upsert) =>
        /\ rlog[hist[1].run].event # "Indexing failed"
        /\ "points_written" \in DOMAIN rlog[hist[1].run]
        /\ rlog[hist[1].run].points_written = written[hist[1].run]

(***************************************************************************)
(* clear_index next to the indexing runs                                   *)
(***************************************************************************)
\* DELETE /index: delete_collection, then create_collection (768, cosine),
\* both synchronous calls of one handler: no task runs between them.  An
\* exception of either is logged and answered with a 500; after a failed
\* create_collection the collection stays deleted.  The handler runs on the
\* event loop of the indexing tasks: it starts while each of them is at an
\* await or not running.
clear_index(deleteOk, createOk) ==
    /\ \A r \in Runs : rpc[r] # "file"
    /\ MayFail(~deleteOk \/ ~createOk)
    /\ nfaults' = Charge(~deleteOk \/ ~createOk)
    /\ collection' = IF ~deleteOk THEN collection
                     ELSE IF ~createOk THEN NoCollection
                     ELSE NewCollection
    /\ stale' = IF deleteOk /\ createOk THEN {r \in Runs : Active(r)} ELSE stale
    /\ UNCHANGED <<tree, rpc, rproject, code_files, fidx, chunks, cidx, points,
                   hist, startColl, faults, lastBatch, rforce, rlog, written>>
    /\ UNCHANGED <<parseVars, embedVars, bootVars, ragVars>>

NextClear ==
    \/ Next
    \/ \E deleteOk \in BOOLEAN, createOk \in BOOLEAN : clear_index(deleteOk, createOk)

SpecClear == Init /\ [][NextClear]_vars

\* the step is run r calling qdrant_client.upsert: with a full batch after
\* an embedding, or with the remaining points after the loop
UpsertCalled(r) ==
    \/ /\ rpc[r] = "await"
       /\ points'[r] # points[r]
       /\ Len(points[r]) + 1 >= batch_size
    \/ /\ rpc[r] = "file"
       /\ rpc'[r] \in {"done", "failed"}
       /\ points[r] # <<>>

\* C23: no write is issued against a missing collection: whenever a run
\* calls upsert the collection exists, and every clear_index, also one whose
\* re-creation fails, leaves a collection of dimension 768 and cosine
\* distance behind for the upserts that follow.
C23_NoWriteToMissingCollection ==
    [][/\ \A r \in Runs : UpsertCalled(r) => collection.exists
       /\ (collection' # collection /\ \A r \in Runs : ~UpsertCalled(r)) =>
             (collection' = NewCollection)]_vars

\* C30: a run that was in progress when clear_index returned success writes
\* no further point into the re-created collection, neither its pending
\* batch nor points of later files.
C30_NoWriteByRunBeforeClear ==
    [][\A r \in stale : written'[r] = written[r]]_vars

(***************************************************************************)
(* Termination of perform_indexing                                         *)
(***************************************************************************)
\* the task of run r goes on: an awaited embedding returns or fails, a store
\* call returns or raises, and the statements up to the next await run
RunStep(r) ==
    \/ \E readOk \in BOOLEAN : ParseFile(r, readOk)
    \/ \E o \in EmbedOutcomes, up \in BOOLEAN : EmbedReturn(r, o, up)
    \/ \E up \in BOOLEAN : FinishRun(r, up)

\* the first run only, of every scope over every tree, with its failures
NextLive ==
    \/ \E pp \in ProjectPaths, force \in DefaultForce : StartRun(1, pp, force)
    \/ RunStep(1)

\* the event loop runs a started task on: it does not wait for ever
SpecLive == Init /\ [][NextLive]_vars /\ WF_vars(RunStep(1))

\* C24: every started run reaches its end, completed or failed, whatever
\* fails per file, per chunk or per batch; while it runs the loop never goes
\* back to a file, and each time it is back at the head of the loop it is at
\* a later file than before: each enumerated file is processed at most once.
C24_RunTerminates ==
    /\ \A r \in Runs : Active(r) ~> Ended(r)
    /\ [][\A r \in Runs :
             (Active(r) /\ Active(r)') =>
                 /\ fidx'[r] >= fidx[r]
                 /\ (rpc'[r] = "file" /\ <<rpc[r], cidx[r]>>' # <<rpc[r], cidx[r]>>) =>
                        fidx'[r] > fidx[r]]_vars

\* a run that met a failure (of a read, an embedding or an upsert inside the
\* loop) went on over the files after it and completed
C24_Witness ==
    /\ hist # <<>>
    /\ rpc[hist[1].run] = "done"
    /\ faults # NoFaults
    /\ Len(find_code_files(hist[1].tree, Workspace(hist[1].project))) >= 2

(***************************************************************************)
(* Properties of the collection after a later run (Spec)                   *)
(***************************************************************************)
\* the project_path payload of the points a run of this scope writes
ScopeLabel(project_path) ==
    IF project_path # <<>> THEN relative_to(Workspace(project_path), WORKSPACE_PATH)
    ELSE <<"workspace">>

\* payload pl is the payload of a chunk the chunker makes of run h's tree
CurrentChunk(h, pl) ==
    \E p \in Enumerated(h) :
        /\ relative_to(p, Workspace(h.project)) = pl.file_path
        /\ LET cs == ChunksOf(h, p)
           IN  \E k \in 1..Len(cs) :
                   /\ cs[k].start_line = pl.start_line
                   /\ cs[k].end_line = pl.end_line

\* C25: after a run completed over a tree that changed since an earlier run
\* of the same scope, the collection holds no stale point: every point of
\* that scope is a chunk (file_path, start_line, end_line) the chunker
\* produces for the current tree.
C25_NoStalePoint ==
    (TwoRunsDone /\ faults = NoFaults /\ hist[1].tree # hist[2].tree) =>
        \A id \in DOMAIN collection.points :
            LET pl == collection.points[id].payload
            IN  pl.project_path = ScopeLabel(hist[1].project) => CurrentChunk(hist[1], pl)

\* C26: an indexing run for project scope S leaves every point of another
\* scope as it was when the run started, also when S is a sub-project of a
\* workspace indexed as a whole before, or the reverse: it overwrites
\* neither the file_path nor the project_path payload of such a point.
C26_OtherScopesUntouched ==
    hist # <<>> =>
        \A id \in DOMAIN startColl.points :
            startColl.points[id].payload.project_path # ScopeLabel(hist[1].project) =>
                /\ id \in DOMAIN collection.points
                /\ collection.points[id] = startColl.points[id]

(***************************************************************************)
(* force_reindex                                                           *)
(***************************************************************************)
\* runs requested one after the other, each with force_reindex set or not
NextForce ==
    \/ \E r \in Runs, pp \in ProjectPaths, force \in BOOLEAN :
          AfterEarlierRuns(r) /\ StartRun(r, pp, force)
    \/ \E r \in Runs : RunStep(r)

SpecForce == Init /\ [][NextForce]_vars

\* the points a run h without failures builds: one per chunk of every
\* enumerated file, with the embedding of the chunk's content
RunPoints(h) ==
    UNION {LET cs == ChunksOf(h, p)
           IN  {MkPoint(p, cs[k], generate_embedding(cs[k].content, "ok"),
                        Workspace(h.project), h.project) : k \in 1..Len(cs)}
           : p \in Enumerated(h)}

\* the collection coll after these points were written into it, whatever
\* the batches they came in
ExpectedAfter(coll, new) ==
    [coll EXCEPT !.points =
        [id \in DOMAIN coll.points \cup {q.id : q \in new} |->
            IF \E q \in new : q.id = id
            THEN LET q == CHOOSE q \in new : q.id = id
                 IN  [vector |-> q.vector, payload |-> q.payload]
            ELSE coll.points[id]]]

get_index_status(project_path, coll, storeUp) ==
    LET workspace == Workspace(project_path)
        total_files == Len(find_code_files(tree, workspace))
        indexed_count == Cardinality(DOMAIN coll.points)
    IN  IF ~storeUp \/ ~coll.exists THEN Http500
        ELSE [status |-> IF indexed_count > 0 THEN "indexed" ELSE "not_indexed",
              indexed_files |-> indexed_count,
              total_files |-> total_files,
              project_path |-> ScopeLabel(project_path),
              failed |-> FALSE]

\* a client asks for the status of a scope
GetStatus(project_path, storeUp) ==
    /\ request = NoRequest
    /\ request' = [kind |-> "status", query |-> <<>>, project_path |-> project_path,
                   limit |-> 0, deps |-> IF storeUp THEN "ok" ELSE "store_error"]
    /\ response' = get_index_status(project_path, collection, storeUp)
    /\ UNCHANGED <<pipeVars, parseVars, embedVars, bootVars, clearVars>>

\* runs requested one after the other, the status asked at every point
NextStatus ==
    \/ \E r \in Runs, pp \in ProjectPaths, force \in DefaultForce :
          AfterEarlierRuns(r) /\ StartRun(r, pp, force)
    \/ \E r \in Runs : RunStep(r)
    \/ \E pp \in ProjectPaths, up \in BOOLEAN : GetStatus(pp, up)
    \/ Answered

SpecStatus == Init /\ [][NextStatus]_vars

\* the number of points of the collection whose project_path is the scope
PointsOfScope(coll, project_path) ==
    Cardinality({id \in DOMAIN coll.points :
                    coll.points[id].payload.project_path = ScopeLabel(project_path)})

\* C28: get_status of a scope answers 'indexed' exactly when the collection
\* holds a point of that scope, with the number of points of that scope as
\* its indexed count; a scope no run has indexed is 'not_indexed' whatever
\* other scopes hold.
C28_StatusOfScope ==
    [][(request = NoRequest /\ request'.kind = "status" /\ ~response'.failed) =>
          /\ response'.status = "indexed" <=>
                PointsOfScope(collection, request'.project_path) > 0
          /\ response'.indexed_files = PointsOfScope(collection, request'.project_path)]_vars

(***************************************************************************)
(* Concurrent runs of one scope                                            *)
(***************************************************************************)
\* runs of one scope requested while earlier ones are under way, every
\* read, embedding and store call answering
NextSame ==
    \/ \E r \in Runs, pp \in ProjectPaths, force \in DefaultForce :
          /\ \A q \in Runs : q < r => (rpc[q] # "pending" /\ rproject[q] = pp)
          /\ LoopFree(r)
          /\ StartRun(r, pp, force)
    \/ \E r \in Runs : LoopFree(r) /\ ParseFile(r, TRUE)
    \/ \E r \in Runs : LoopFree(r) /\ EmbedReturn(r, "ok", TRUE)
    \/ \E r \in Runs : LoopFree(r) /\ FinishRun(r, TRUE)

SpecSame == Init /\ [][NextSame]_vars

\* every requested run is through and all were runs of one scope
AllDoneOneScope ==
    /\ \A r \in Runs : rpc[r] = "done"
    /\ \A r \in Runs : rproject[r] = rproject[1]

\* C29: runs of one scope started concurrently over the same unchanged
\* tree, no call failing, end under every interleaving of their embedding
\* awaits and upsert calls with the collection a single run produces: same
\* identifiers, payloads and vectors.
C29_ConcurrentRunsAsOne ==
    (AllDoneOneScope /\ nfaults = 0) =>
        collection = ExpectedAfter(NewCollection,
                                   RunPoints([run |-> 1, project |-> rproject[1],
                                              tree |-> tree]))

\* the latest run was started between the first upsert of a run before it
\* and that run's end (the collection held one full batch then and holds
\* more now), and all runs are through
C29_Witness ==
    /\ AllDoneOneScope
    /\ nfaults = 0
    /\ Cardinality(DOMAIN startColl.points) = batch_size
    /\ Cardinality(DOMAIN collection.points) > batch_size

====
